---- MODULE Spec2Model ----
(***************************************************************************)
(* Model of src/distributions.py: the generic_posterior class and the      *)
(* gamma, normal, exponential, uniform, lognormal and logitnormal          *)
(* families.  The functions are stateless, so a behaviour is one call: the *)
(* initial state holds the call and its arguments, and the action of the   *)
(* called operation runs the translated body and records the outcome (a    *)
(* returned value or a raised exception).                                  *)
(*                                                                         *)
(* Real numbers are taken from an integer grid.  For lognormal the grid    *)
(* unit is the clipping threshold 1e-6, so that grid points fall below,    *)
(* on and above the threshold.  log, erf, gammaln, gammainc and quad are   *)
(* external numeric primitives: a finite result of one of them is kept as  *)
(* an uninterpreted term, an infinite or undefined one as -inf, +inf, nan. *)
(* Arguments are real numbers, so / is true division.                      *)
(***************************************************************************)
EXTENDS Integers, Sequences, FiniteSets

VARIABLES call, ret, posterior

vars == <<call, ret, posterior>>

(* ------------------------------ bounds --------------------------------- *)

\* sample values x range over -1 .. MaxX
MaxX == 2
\* logitnormal sample values are the multiples n / Unit of the grid, so that
\* 0 < n < Unit is the open interval (0, 1)
Unit == 2
\* location and bound parameters (mu, a, b) range over -1 .. MaxParam
MaxParam == 2
\* rate and spread parameters (beta, sigma) range over -1 .. MaxRate
MaxRate == 2
\* vectors of sample values have 0 .. MaxLen entries
MaxLen == 3
\* the sample count N of rvs ranges over 1 .. MaxN
MaxN == 2
\* a single random draw is one of 1 .. MaxDraw
MaxDraw == 2

Xs == -1 .. MaxX
Params == -1 .. MaxParam
Rates == -1 .. MaxRate
Shapes == 1 .. MaxRate
Counts == 1 .. MaxN
Draws == 1 .. MaxDraw

(* ------------------------------ values --------------------------------- *)

\* the outcome of a call
Return(v) == [kind |-> "return", val |-> v]
Raise(e) == [kind |-> "raise", exc |-> e]

\* Python and numpy values, tagged with their class
Scalar(n) == [cls |-> "float", data |-> n]
Array(s) == [cls |-> "ndarray", data |-> s]
Bool(p) == [cls |-> "bool", data |-> p]
NoneValue == [cls |-> "NoneType"]
Function(f) == [cls |-> "function", name |-> f]

\* floating-point results: a finite term, an exact rational, or a special
Term(f, args) == [cls |-> "float", k |-> "fin", f |-> f, args |-> args]
Rational(n, d) == [cls |-> "float", k |-> "rat", num |-> n, den |-> d]
NegInf == [cls |-> "float", k |-> "ninf"]
PosInf == [cls |-> "float", k |-> "pinf"]
NaN == [cls |-> "float", k |-> "nan"]
Zero == Rational(0, 1)

\* scalar sample values and vectors of them
ScalarXs == {Scalar(n) : n \in Xs}
VectorXs == {Array(s) : s \in UNION {[1 .. n -> Xs] : n \in 0 .. MaxLen}}
LogitXs == {Scalar(n) : n \in -1 .. Unit + 1}

(* --------------------------- numpy primitives -------------------------- *)

\* exp of one floating-point result; exp(-log(w)) is kept as 1/w
exp_float(v) ==
    IF v.k = "ninf" THEN Zero
    ELSE IF v.k = "pinf" THEN PosInf
    ELSE IF v.k = "nan" THEN NaN
    ELSE IF v.k = "rat" THEN [cls |-> "float", k |-> "fin", f |-> "exp", of |-> v]
    ELSE IF v.f = "neglog" THEN Rational(1, v.args[1])
    ELSE [cls |-> "float", k |-> "fin", f |-> "exp", of |-> v]

\* np.exp, elementwise on an array
np_exp(v) ==
    IF v.cls = "ndarray"
    THEN Array([i \in 1 .. Len(v.data) |-> exp_float(v.data[i])])
    ELSE exp_float(v)

\* f(g(...)) where g may raise: the exception passes through np.exp
exp_of(r) == IF r.kind = "raise" THEN r ELSE Return(np_exp(r.val))

\* the draws of a sampler as an array of N values
samples(family, N, draws) == Array([i \in 1 .. N |-> Term(family, <<draws[i]>>)])

\* a <= x and x <= b with numpy broadcasting of the scalar bound
less_equal_left(a, x) ==
    IF x.cls = "ndarray"
    THEN Array([i \in 1 .. Len(x.data) |-> a <= x.data[i]])
    ELSE Bool(a <= x.data)

less_equal_right(x, b) ==
    IF x.cls = "ndarray"
    THEN Array([i \in 1 .. Len(x.data) |-> x.data[i] <= b])
    ELSE Bool(x.data <= b)

\* np.all(rows, axis=0): the conjunction down each column of the stacked rows
np_all_axis0(rows) ==
    IF rows[1].cls = "ndarray"
    THEN Array([i \in 1 .. Len(rows[1].data) |->
                   \A r \in 1 .. Len(rows) : rows[r].data[i]])
    ELSE Bool(\A r \in 1 .. Len(rows) : rows[r].data)

\* a boolean (True is 1, False is 0) divided by the width d, elementwise
true_divide(v, d) ==
    IF v.cls = "ndarray"
    THEN Array([i \in 1 .. Len(v.data) |->
                   IF v.data[i] THEN Rational(1, d) ELSE Zero])
    ELSE IF v.data THEN Rational(1, d) ELSE Zero

(* ------------------------------- uniform ------------------------------- *)

\* x < b in place of x <= b
less_right(x, b) ==
    IF x.cls = "ndarray"
    THEN Array([i \in 1 .. Len(x.data) |-> x.data[i] < b])
    ELSE Bool(x.data < b)

\* uniform.pdf with the upper bound left out of the interval
uniform_pdf_half_open(x, a, b) ==
    Return(true_divide(
        np_all_axis0(<<less_equal_left(a, x), less_right(x, b)>>), b - a))

uniform_pdf(x, a, b) ==
    Return(true_divide(
        np_all_axis0(<<less_equal_left(a, x), less_equal_right(x, b)>>), b - a))

\* uniform.logpdf with the upper bound left out of the interval
uniform_logpdf_half_open(x, a, b) ==
    IF a <= x.data /\ x.data < b
    THEN Return(Term("neglog", <<b - a>>))
    ELSE Return(NegInf)

uniform_logpdf(x, a, b) ==
    IF a <= x.data /\ x.data <= b
    THEN Return(Term("neglog", <<b - a>>))
    ELSE Return(NegInf)

uniform_rvs(a, b, N, draws) == Return(samples("uniform", N, draws))

(* ------------------------------ lognormal ------------------------------ *)

\* the clipping threshold 1e-6, the unit of the lognormal grid
Threshold == 1

\* the precise formula and the x-independent small-x fallback
lognormal_precise(x, mu, sigma) == Term("lognormal_precise", <<x, mu, sigma>>)
lognormal_small(mu, sigma) == Term("lognormal_small", <<mu, sigma>>)

\* x > t, x >= t and x == t on an array: an array of booleans
greater(x, t) == Array([i \in 1 .. Len(x.data) |-> x.data[i] > t])
greater_equal(x, t) == Array([i \in 1 .. Len(x.data) |-> x.data[i] >= t])
equal(x, t) == Array([i \in 1 .. Len(x.data) |-> x.data[i] = t])

\* pp.find(condition): the indices where the condition holds
find(condition) == {i \in 1 .. Len(condition.data) : condition.data[i]}

\* the ndarray branch with the threshold itself sent to the precise formula
lognormal_logpdf_ndarray_ge(x, mu, sigma) ==
    IF sigma > 0
    THEN LET I == find(greater_equal(x, Threshold))
         IN  Array([i \in 1 .. Len(x.data) |->
                 IF i \in I THEN lognormal_precise(x.data[i], mu, sigma)
                 ELSE lognormal_small(mu, sigma)])
    ELSE LET I == find(equal(x, mu))
         IN  Array([i \in 1 .. Len(x.data) |-> IF i \in I THEN Zero ELSE NegInf])

\* the branch for x.__class__ == np.ndarray
lognormal_logpdf_ndarray(x, mu, sigma) ==
    IF sigma > 0
    THEN LET I == find(greater(x, Threshold))
         IN  Array([i \in 1 .. Len(x.data) |->
                 IF i \in I THEN lognormal_precise(x.data[i], mu, sigma)
                 ELSE lognormal_small(mu, sigma)])
    ELSE LET I == find(equal(x, mu))
         IN  Array([i \in 1 .. Len(x.data) |-> IF i \in I THEN Zero ELSE NegInf])

\* the branch for any other class of x
lognormal_logpdf_scalar(x, mu, sigma) ==
    IF sigma > 0
    THEN IF x.data > Threshold
         THEN lognormal_precise(x.data, mu, sigma)
         ELSE lognormal_small(mu, sigma)
    ELSE IF x.data = mu THEN Zero ELSE NegInf

lognormal_logpdf(x, mu, sigma) ==
    IF x.cls = "ndarray"
    THEN Return(lognormal_logpdf_ndarray(x, mu, sigma))
    ELSE Return(lognormal_logpdf_scalar(x, mu, sigma))

lognormal_pdf(x, mu, sigma) == exp_of(lognormal_logpdf(x, mu, sigma))

\* np.random.lognormal refuses a negative sigma
lognormal_rvs(mu, sigma, draw) ==
    IF sigma < 0 THEN Raise("ValueError")
    ELSE Return(Term("lognormal", <<draw>>))

(* -------------------------------- gamma -------------------------------- *)

\* (alpha - 1) * log(x) for a shape alpha >= 1: 0 * -inf is nan
gamma_log_x_term(x, alpha) ==
    IF x > 0 THEN "fin"
    ELSE IF x < 0 THEN "nan"
    ELSE IF alpha = 1 THEN "nan"
    ELSE "ninf"

gamma_logpdf(x, alpha, beta) ==
    IF beta > 0
    THEN LET c == gamma_log_x_term(x, alpha)
         IN  IF c = "fin" THEN Return(Term("gamma_logpdf", <<x, alpha, beta>>))
             ELSE IF c = "ninf" THEN Return(NegInf)
             ELSE Return(NaN)
    ELSE Raise("AssertionError")

gamma_pdf(x, alpha, beta) == exp_of(gamma_logpdf(x, alpha, beta))

\* special.gammainc(alpha, x * beta): nan for a negative second argument
gamma_cdf(x, alpha, beta) ==
    IF x * beta < 0 THEN Return(NaN)
    ELSE Return(Term("gammainc", <<alpha, x * beta>>))

\* 1.0 / beta, then np.random.gamma, which refuses a negative scale
gamma_rvs(alpha, beta, N, draws) ==
    IF beta = 0 THEN Raise("ZeroDivisionError")
    ELSE IF beta < 0 THEN Raise("ValueError")
    ELSE Return(samples("gamma", N, draws))

(* -------------------------------- normal ------------------------------- *)

\* log(sigma) is nan for a negative sigma; dividing by sigma ** 2 = 0 raises
normal_logpdf(x, mu, sigma) ==
    IF sigma = 0 THEN Raise("ZeroDivisionError")
    ELSE IF sigma < 0 THEN Return(NaN)
    ELSE Return(Term("normal_logpdf", <<x, mu, sigma>>))

normal_pdf(x, mu, sigma) == exp_of(normal_logpdf(x, mu, sigma))

normal_rvs(mu, sigma, N, draws) ==
    IF sigma < 0 THEN Raise("ValueError")
    ELSE Return(samples("normal", N, draws))

(* ----------------------------- exponential ----------------------------- *)

exponential_logpdf(x, beta) ==
    IF beta > 0
    THEN Return(Term("exponential_logpdf", <<x, beta>>))
    ELSE Raise("AssertionError")

exponential_pdf(x, beta) == exp_of(exponential_logpdf(x, beta))

exponential_rvs(beta, N, draws) ==
    IF beta = 0 THEN Raise("ZeroDivisionError")
    ELSE IF beta < 0 THEN Raise("ValueError")
    ELSE Return(samples("exponential", N, draws))

(* ----------------------------- logitnormal ----------------------------- *)

\* IEEE arithmetic on the classes fin, pinf, ninf, nan; np.log of 0 is -inf
\* and of a negative number nan (numpy warns and does not raise)
ext_log(n) == IF n > 0 THEN "fin" ELSE IF n = 0 THEN "ninf" ELSE "nan"

ext_neg(c) == IF c = "pinf" THEN "ninf" ELSE IF c = "ninf" THEN "pinf" ELSE c

ext_add(c, d) ==
    IF c = "nan" \/ d = "nan" THEN "nan"
    ELSE IF c = "fin" THEN d
    ELSE IF d = "fin" THEN c
    ELSE IF c = d THEN c
    ELSE "nan"

ext_square(c) == IF c \in {"pinf", "ninf"} THEN "pinf" ELSE c

\* x is n / Unit.  With sigma = 0 the third term is +inf and the fourth is
\* -inf or nan, so the sum is nan; any other sigma leaves the classes of the
\* logarithms to decide.
logitnormal_logpdf(n, mu, sigma) ==
    LET log_x == ext_log(n)
        log_1mx == ext_log(Unit - n)
        logit == ext_add(log_x, ext_neg(log_1mx))
        c == ext_add(ext_add(ext_neg(log_x), ext_neg(log_1mx)),
                     ext_neg(ext_square(logit)))
    IN  IF sigma = 0 THEN Return(NaN)
        ELSE IF c = "fin" THEN Return(Term("logitnormal_logpdf", <<n, mu, sigma>>))
        ELSE IF c = "pinf" THEN Return(PosInf)
        ELSE IF c = "ninf" THEN Return(NegInf)
        ELSE Return(NaN)

logitnormal_pdf(n, mu, sigma) == exp_of(logitnormal_logpdf(n, mu, sigma))

\* the body is pass: the call returns None
logitnormal_rvs(mu, sigma) == Return(NoneValue)

(* --------------------------- generic_posterior ------------------------- *)

\* the proportional densities a caller may supply, and what quadrature over
\* (-inf, +inf) gives for each
Integrands == {"gaussian", "zero", "negative", "constant"}

quad_whole_line(f) ==
    IF f = "gaussian" THEN Term("sqrt_2pi", <<>>)
    ELSE IF f = "zero" THEN Zero
    ELSE IF f = "negative" THEN Rational(-1, 1)
    ELSE PosInf

Instance == [cls |-> "generic_posterior"]

\* __init__ as Python calls it: argv is the positional arguments as passed,
\* the new instance first.  The signature binds exactly one parameter; with
\* one argument the body starts by reading the name self, which is unbound.
\* No attribute is ever written.
generic_posterior_init(argv) ==
    IF Len(argv) # 1
    THEN [outcome |-> Raise("TypeError"), attrs |-> NoneValue]
    ELSE [outcome |-> Raise("NameError"), attrs |-> NoneValue]

\* No instance leaves the constructor, so pdf and cdf are applied to
\* receivers that carry the two attributes __init__ was written to set.
Receivers ==
    {[cls |-> "generic_posterior",
      proportional_posterior |-> Function(f),
      normalization |-> quad_whole_line(f)] : f \in Integrands}

\* l / r in Python: a function object has no division
py_truediv(l, r) ==
    IF l.cls = "function" THEN Raise("TypeError")
    ELSE Return([cls |-> "float", k |-> "fin", f |-> "truediv", of |-> <<l, r>>])

generic_posterior_pdf(self, x) ==
    py_truediv(self.proportional_posterior, self.normalization)

\* quad(self.pdf, -inf, upper)[0]: the integrand is evaluated, and what it
\* raises leaves quad
quad_pdf(self, upper) ==
    LET probe == generic_posterior_pdf(self, upper)
    IN  IF probe.kind = "raise" THEN probe
        ELSE Return(Term("quad_pdf", <<upper>>))

generic_posterior_cdf(self, x) ==
    IF x.cls = "ndarray"
    THEN LET rs == [i \in 1 .. Len(x.data) |-> quad_pdf(self, x.data[i])]
             bad == {i \in 1 .. Len(x.data) : rs[i].kind = "raise"}
         IN  IF bad # {}
             THEN rs[CHOOSE i \in bad : \A j \in bad : i <= j]
             ELSE Return(Array([i \in 1 .. Len(x.data) |-> rs[i].val]))
    ELSE quad_pdf(self, x.data)

(* -------------------------------- calls -------------------------------- *)

AnyXs == ScalarXs \cup VectorXs

Pending == [kind |-> "pending"]

\* every call of the module within the bounds
Calls ==
    {[op |-> "generic_posterior", args |-> <<Function(f)>>] : f \in Integrands}
    \cup {[op |-> "generic_posterior", args |-> <<>>]}
    \cup {[op |-> o, self |-> s, x |-> x] :
            o \in {"generic_posterior.pdf", "generic_posterior.cdf"},
            s \in Receivers, x \in AnyXs}
    \cup {[op |-> o, x |-> x, alpha |-> al, beta |-> be] :
            o \in {"gamma.pdf", "gamma.logpdf", "gamma.cdf"},
            x \in ScalarXs, al \in Shapes, be \in Rates}
    \cup {[op |-> "gamma.rvs", alpha |-> al, beta |-> be, N |-> n] :
            al \in Shapes, be \in Rates, n \in Counts}
    \cup {[op |-> o, x |-> x, mu |-> mu, sigma |-> si] :
            o \in {"normal.pdf", "normal.logpdf"},
            x \in ScalarXs, mu \in Params, si \in Rates}
    \cup {[op |-> "normal.rvs", mu |-> mu, sigma |-> si, N |-> n] :
            mu \in Params, si \in Rates, n \in Counts}
    \cup {[op |-> o, x |-> x, beta |-> be] :
            o \in {"exponential.pdf", "exponential.logpdf"},
            x \in ScalarXs, be \in Rates}
    \cup {[op |-> "exponential.rvs", beta |-> be, N |-> n] :
            be \in Rates, n \in Counts}
    \cup {c \in {[op |-> "uniform.pdf", x |-> x, a |-> a, b |-> b] :
                    x \in AnyXs, a \in Params, b \in Params} : c.a < c.b}
    \cup {c \in {[op |-> "uniform.logpdf", x |-> x, a |-> a, b |-> b] :
                    x \in ScalarXs, a \in Params, b \in Params} : c.a < c.b}
    \cup {c \in {[op |-> "uniform.rvs", a |-> a, b |-> b, N |-> n] :
                    a \in Params, b \in Params, n \in Counts} : c.a < c.b}
    \cup {[op |-> o, x |-> x, mu |-> mu, sigma |-> si] :
            o \in {"lognormal.pdf", "lognormal.logpdf"},
            x \in AnyXs, mu \in Params, si \in Rates}
    \cup {[op |-> "lognormal.rvs", mu |-> mu, sigma |-> si] :
            mu \in Params, si \in Rates}
    \cup {[op |-> o, x |-> x, mu |-> mu, sigma |-> si] :
            o \in {"logitnormal.pdf", "logitnormal.logpdf"},
            x \in LogitXs, mu \in Params, si \in Rates}
    \cup {[op |-> "logitnormal.rvs", mu |-> mu, sigma |-> si] :
            mu \in Params, si \in Rates}

(* ------------------------------- actions ------------------------------- *)

\* A caller holds no posterior and is about to make one call.
Init ==
    /\ call \in Calls
    /\ ret = Pending
    /\ posterior = NoneValue

Calling(op) == call.op = op /\ ret = Pending

Construct ==
    /\ Calling("generic_posterior")
    /\ LET r == generic_posterior_init(<<Instance>> \o call.args)
       IN  /\ ret' = r.outcome
           /\ posterior' = IF r.outcome.kind = "return" THEN r.attrs ELSE posterior
    /\ UNCHANGED call

PosteriorPdf ==
    /\ Calling("generic_posterior.pdf")
    /\ ret' = generic_posterior_pdf(call.self, call.x)
    /\ UNCHANGED <<call, posterior>>

PosteriorCdf ==
    /\ Calling("generic_posterior.cdf")
    /\ ret' = generic_posterior_cdf(call.self, call.x)
    /\ UNCHANGED <<call, posterior>>

GammaPdf ==
    /\ Calling("gamma.pdf")
    /\ ret' = gamma_pdf(call.x.data, call.alpha, call.beta)
    /\ UNCHANGED <<call, posterior>>

GammaLogpdf ==
    /\ Calling("gamma.logpdf")
    /\ ret' = gamma_logpdf(call.x.data, call.alpha, call.beta)
    /\ UNCHANGED <<call, posterior>>

GammaCdf ==
    /\ Calling("gamma.cdf")
    /\ ret' = gamma_cdf(call.x.data, call.alpha, call.beta)
    /\ UNCHANGED <<call, posterior>>

GammaRvs ==
    /\ Calling("gamma.rvs")
    /\ \E draws \in [1 .. call.N -> Draws] :
           ret' = gamma_rvs(call.alpha, call.beta, call.N, draws)
    /\ UNCHANGED <<call, posterior>>

NormalPdf ==
    /\ Calling("normal.pdf")
    /\ ret' = normal_pdf(call.x.data, call.mu, call.sigma)
    /\ UNCHANGED <<call, posterior>>

NormalLogpdf ==
    /\ Calling("normal.logpdf")
    /\ ret' = normal_logpdf(call.x.data, call.mu, call.sigma)
    /\ UNCHANGED <<call, posterior>>

NormalRvs ==
    /\ Calling("normal.rvs")
    /\ \E draws \in [1 .. call.N -> Draws] :
           ret' = normal_rvs(call.mu, call.sigma, call.N, draws)
    /\ UNCHANGED <<call, posterior>>

ExponentialPdf ==
    /\ Calling("exponential.pdf")
    /\ ret' = exponential_pdf(call.x.data, call.beta)
    /\ UNCHANGED <<call, posterior>>

ExponentialLogpdf ==
    /\ Calling("exponential.logpdf")
    /\ ret' = exponential_logpdf(call.x.data, call.beta)
    /\ UNCHANGED <<call, posterior>>

ExponentialRvs ==
    /\ Calling("exponential.rvs")
    /\ \E draws \in [1 .. call.N -> Draws] :
           ret' = exponential_rvs(call.beta, call.N, draws)
    /\ UNCHANGED <<call, posterior>>

UniformPdf ==
    /\ Calling("uniform.pdf")
    /\ ret' = uniform_pdf(call.x, call.a, call.b)
    /\ UNCHANGED <<call, posterior>>

UniformLogpdf ==
    /\ Calling("uniform.logpdf")
    /\ ret' = uniform_logpdf(call.x, call.a, call.b)
    /\ UNCHANGED <<call, posterior>>

UniformRvs ==
    /\ Calling("uniform.rvs")
    /\ \E draws \in [1 .. call.N -> Draws] :
           ret' = uniform_rvs(call.a, call.b, call.N, draws)
    /\ UNCHANGED <<call, posterior>>

LognormalPdf ==
    /\ Calling("lognormal.pdf")
    /\ ret' = lognormal_pdf(call.x, call.mu, call.sigma)
    /\ UNCHANGED <<call, posterior>>

LognormalLogpdf ==
    /\ Calling("lognormal.logpdf")
    /\ ret' = lognormal_logpdf(call.x, call.mu, call.sigma)
    /\ UNCHANGED <<call, posterior>>

LognormalRvs ==
    /\ Calling("lognormal.rvs")
    /\ \E draw \in Draws : ret' = lognormal_rvs(call.mu, call.sigma, draw)
    /\ UNCHANGED <<call, posterior>>

LogitnormalPdf ==
    /\ Calling("logitnormal.pdf")
    /\ ret' = logitnormal_pdf(call.x.data, call.mu, call.sigma)
    /\ UNCHANGED <<call, posterior>>

LogitnormalLogpdf ==
    /\ Calling("logitnormal.logpdf")
    /\ ret' = logitnormal_logpdf(call.x.data, call.mu, call.sigma)
    /\ UNCHANGED <<call, posterior>>

LogitnormalRvs ==
    /\ Calling("logitnormal.rvs")
    /\ ret' = logitnormal_rvs(call.mu, call.sigma)
    /\ UNCHANGED <<call, posterior>>

Next ==
    \/ Construct
    \/ PosteriorPdf
    \/ PosteriorCdf
    \/ GammaPdf
    \/ GammaLogpdf
    \/ GammaCdf
    \/ GammaRvs
    \/ NormalPdf
    \/ NormalLogpdf
    \/ NormalRvs
    \/ ExponentialPdf
    \/ ExponentialLogpdf
    \/ ExponentialRvs
    \/ UniformPdf
    \/ UniformLogpdf
    \/ UniformRvs
    \/ LognormalPdf
    \/ LognormalLogpdf
    \/ LognormalRvs
    \/ LogitnormalPdf
    \/ LogitnormalLogpdf
    \/ LogitnormalRvs

Spec == Init /\ [][Next]_vars

(* ------------------------------- claims -------------------------------- *)

Done == ret # Pending

IsVector == call.x.cls = "ndarray"

\* C1: constructing a generic_posterior from an integrable non-negative
\* function succeeds and stores the integral of that function as the
\* normalization of the new object.
C1_ConstructionStoresNormalization ==
    (/\ call.op = "generic_posterior"
     /\ call.args = <<Function("gaussian")>>
     /\ Done)
    => /\ ret.kind = "return"
       /\ posterior # NoneValue
       /\ posterior.normalization = quad_whole_line("gaussian")

\* C2: pdf(x) returns the supplied density evaluated at x, divided by the
\* cached normalization.
C2_PdfIsDensityOverNormalization ==
    (/\ call.op = "generic_posterior.pdf"
     /\ ~IsVector
     /\ Done)
    => /\ ret.kind = "return"
       /\ ret.val = [cls |-> "float", k |-> "fin", f |-> "truediv",
                     of |-> <<Term(call.self.proportional_posterior.name,
                                   <<call.x.data>>),
                              call.self.normalization>>]

\* C3: cdf on an ordered collection returns a collection of the same length
\* whose i-th entry is the scalar cdf of the i-th point; on a single point it
\* returns a single value.
C3_CdfIsElementwise ==
    (call.op = "generic_posterior.cdf" /\ Done)
    => /\ ret.kind = "return"
       /\ IsVector =>
            /\ ret.val.cls = "ndarray"
            /\ Len(ret.val.data) = Len(call.x.data)
            /\ \A i \in 1 .. Len(call.x.data) :
                   Return(ret.val.data[i]) =
                       generic_posterior_cdf(call.self, Scalar(call.x.data[i]))
       /\ ~IsVector => ret.val.cls = "float"

\* C4: constructing from a function whose integral is zero, negative or
\* divergent fails with a normalization error.
C4_InvalidNormalizationIsRefused ==
    (/\ call.op = "generic_posterior"
     /\ call.args \in {<<Function(f)>> : f \in {"zero", "negative", "constant"}}
     /\ Done)
    => /\ ret = Raise("NormalizationError")
       /\ posterior = NoneValue

\* C5: every gamma and exponential operation that takes the rate beta fails
\* with an error, and returns no value, when beta <= 0.
C5_NonPositiveRateFails ==
    (/\ call.op \in {"gamma.logpdf", "gamma.pdf", "gamma.cdf", "gamma.rvs",
                     "exponential.logpdf", "exponential.pdf", "exponential.rvs"}
     /\ call.beta <= 0
     /\ Done)
    => ret.kind = "raise"

\* the density the uniform family assigns to one sample value
UniformDensity(x, a, b) == IF a <= x /\ x <= b THEN Rational(1, b - a) ELSE Zero

\* C6: uniform.pdf(x, a, b) with a < b returns 1/(b-a) where a <= x <= b and
\* 0 elsewhere, bounds included: one value for a scalar x, a vector of the
\* same length, entry by entry, for a vector x.
C6_UniformPdfIsIndicatorOverWidth ==
    (call.op = "uniform.pdf" /\ Done)
    => /\ ret.kind = "return"
       /\ IsVector =>
            /\ ret.val.cls = "ndarray"
            /\ Len(ret.val.data) = Len(call.x.data)
            /\ \A i \in 1 .. Len(call.x.data) :
                   ret.val.data[i] = UniformDensity(call.x.data[i], call.a, call.b)
       /\ ~IsVector => ret.val = UniformDensity(call.x.data, call.a, call.b)

\* a vector with an entry on the lower bound, one on the upper bound and one
\* outside has been evaluated over an interval wider than 1
C6_Witness ==
    /\ call.op = "uniform.pdf" /\ Done /\ IsVector
    /\ call.b - call.a > 1
    /\ \E i, j, k \in 1 .. Len(call.x.data) :
           /\ call.x.data[i] = call.a
           /\ call.x.data[j] = call.b
           /\ call.x.data[k] > call.b
           /\ ret.val.data[i] = Rational(1, call.b - call.a)
           /\ ret.val.data[j] = Rational(1, call.b - call.a)
           /\ ret.val.data[k] = Zero

\* the branch the lognormal log-density takes for one sample value
LognormalBranch(x, mu, sigma) ==
    IF sigma > 0
    THEN IF x > Threshold THEN lognormal_precise(x, mu, sigma)
         ELSE lognormal_small(mu, sigma)
    ELSE IF x = mu THEN Zero ELSE NegInf

\* C7: lognormal.logpdf on a vector returns a vector of the same length
\* whose i-th entry equals lognormal.logpdf on the scalar x[i], both taking
\* the same branch: the precise formula for sigma > 0 and x > 1e-6, the
\* fallback for sigma > 0 and x <= 1e-6, and for sigma not > 0 the value 0
\* where x == mu and -inf elsewhere.
C7_LognormalVectorMatchesScalar ==
    (call.op = "lognormal.logpdf" /\ Done /\ IsVector)
    => /\ ret.kind = "return"
       /\ ret.val.cls = "ndarray"
       /\ Len(ret.val.data) = Len(call.x.data)
       /\ \A i \in 1 .. Len(call.x.data) :
              /\ Return(ret.val.data[i]) =
                     lognormal_logpdf(Scalar(call.x.data[i]), call.mu, call.sigma)
              /\ ret.val.data[i] =
                     LognormalBranch(call.x.data[i], call.mu, call.sigma)

\* a vector with an entry on the threshold and one above it has been
\* evaluated with sigma > 0
C7_Witness ==
    /\ call.op = "lognormal.logpdf" /\ Done /\ IsVector
    /\ call.sigma > 0
    /\ \E i, j \in 1 .. Len(call.x.data) :
           /\ call.x.data[i] = Threshold
           /\ call.x.data[j] > Threshold
           /\ ret.val.data[i] = lognormal_small(call.mu, call.sigma)
           /\ ret.val.data[j] =
                  lognormal_precise(call.x.data[j], call.mu, call.sigma)

\* C8: every call of logitnormal.rvs fails with a not-implemented error.
C8_LogitnormalRvsIsRefused ==
    (call.op = "logitnormal.rvs" /\ Done)
    => ret = Raise("NotImplementedError")

\* C9: logitnormal.logpdf and logitnormal.pdf fail with a domain error, and
\* return no value, for x <= 0 or x >= 1.
C9_LogitnormalDomainError ==
    (/\ call.op \in {"logitnormal.logpdf", "logitnormal.pdf"}
     /\ (call.x.data <= 0 \/ call.x.data >= Unit)
     /\ Done)
    => ret.kind = "raise"

\* pdf and logpdf of the uniform family agree at one scalar sample value
UniformAgree(p, lp, a, b) ==
    /\ p.kind = "return" /\ lp.kind = "return"
    /\ p.val = np_exp(lp.val)
    /\ p.val = Rational(1, b - a) <=> lp.val = Term("neglog", <<b - a>>)
    /\ p.val = Zero <=> lp.val = NegInf
    /\ p.val = Rational(1, b - a) \/ p.val = Zero

\* C10: for every scalar x and a < b, uniform.pdf is 1/(b-a) exactly when
\* uniform.logpdf is -log(b-a) and 0 exactly when uniform.logpdf is -inf,
\* the endpoints x = a and x = b included; and in every family pdf is the
\* exponential of logpdf wherever both return.
C10_PdfIsExpOfLogpdf ==
    /\ (call.op = "uniform.pdf" /\ Done /\ ~IsVector)
       => UniformAgree(ret, uniform_logpdf(call.x, call.a, call.b), call.a, call.b)
    /\ (call.op = "uniform.logpdf" /\ Done)
       => UniformAgree(uniform_pdf(call.x, call.a, call.b), ret, call.a, call.b)
    /\ (call.op = "gamma.pdf" /\ Done /\ ret.kind = "return")
       => ret.val =
              np_exp(gamma_logpdf(call.x.data, call.alpha, call.beta).val)
    /\ (call.op = "normal.pdf" /\ Done /\ ret.kind = "return")
       => ret.val = np_exp(normal_logpdf(call.x.data, call.mu, call.sigma).val)
    /\ (call.op = "exponential.pdf" /\ Done /\ ret.kind = "return")
       => ret.val = np_exp(exponential_logpdf(call.x.data, call.beta).val)
    /\ (call.op = "lognormal.pdf" /\ Done /\ ret.kind = "return")
       => ret.val = np_exp(lognormal_logpdf(call.x, call.mu, call.sigma).val)
    /\ (call.op = "logitnormal.pdf" /\ Done /\ ret.kind = "return")
       => ret.val =
              np_exp(logitnormal_logpdf(call.x.data, call.mu, call.sigma).val)

\* uniform.logpdf has been evaluated on the upper bound of an interval wider
\* than 1, where it is -log(b-a) and the density is 1/(b-a)
C10_Witness ==
    /\ call.op = "uniform.logpdf" /\ Done
    /\ call.x.data = call.b
    /\ call.b - call.a > 1
    /\ ret.val = Term("neglog", <<call.b - call.a>>)
    /\ uniform_pdf(call.x, call.a, call.b).val = Rational(1, call.b - call.a)

====
